---- MODULE Spec2Model ----
(***************************************************************************)
(* A model of the vault orchestrator (package vault): the public           *)
(* operations of Vault, composed of the policy engine, the privatiser, the *)
(* PType engine and the storage interface VaultDB.                         *)
(*                                                                         *)
(* Strings that take part in resource paths, token payloads or projections *)
(* are sequences of one-character strings, so that prefix matching,        *)
(* splitting on "/" and masking are computed as the code computes them.    *)
(***************************************************************************)
EXTENDS Integers, Sequences, FiniteSets, TLC

VARIABLES collections, records, principals, policies, tokens, subjects,
          minted, last

vars == <<collections, records, principals, policies, tokens, subjects,
          minted, last>>

(***************************************************************************)
(* Bounds of the model.                                                    *)
(***************************************************************************)
\* the number of identifiers GenerateId and the storage may mint in a run
MaxIds == 3
\* the longest policy list of a caller in the policy-engine specification
MaxPolicyList == 2

(***************************************************************************)
(* Strings.                                                                *)
(***************************************************************************)
EmptyStr == <<>>
Slash == <<"/">>
Dot == <<".">>
Star == "*"

RECURSIVE Reverse(_)
Reverse(s) == IF s = <<>> THEN <<>> ELSE Reverse(Tail(s)) \o <<Head(s)>>

\* strings.HasPrefix
HasPrefix(s, p) == Len(p) <= Len(s) /\ SubSeq(s, 1, Len(p)) = p

\* strings.Repeat("*", n)
RECURSIVE Repeat(_, _)
Repeat(c, n) == IF n = 0 THEN <<>> ELSE <<c>> \o Repeat(c, n - 1)

\* strings.Split(s, "/"): the parts between the separators, empty parts kept
RECURSIVE SplitAcc(_, _, _)
SplitAcc(s, sep, cur) ==
    IF s = <<>> THEN <<cur>>
    ELSE IF Head(s) = sep THEN <<cur>> \o SplitAcc(Tail(s), sep, <<>>)
    ELSE SplitAcc(Tail(s), sep, Append(cur, Head(s)))

Split(s, sep) == SplitAcc(s, sep, <<>>)

\* the decimal digits of a positive counter
Digits == <<"1", "2", "3", "4", "5", "6", "7", "8", "9">>
Numeral(n) == IF n \in 1..9 THEN <<Digits[n]>> ELSE <<"X", Digits[((n - 1) % 9) + 1]>>

\* the least element of a non-empty set of integers
Min(S) == CHOOSE x \in S : \A y \in S : x <= y

\* a finite set of integers as the ascending sequence of its elements
RECURSIVE Ascending(_)
Ascending(S) == IF S = {} THEN <<>> ELSE <<Min(S)>> \o Ascending(S \ {Min(S)})

\* the empty map
EmptyMap == [x \in {} |-> <<>>]

\* m with key k set to v
Put(m, k, v) == [x \in DOMAIN m \cup {k} |-> IF x = k THEN v ELSE m[x]]

\* m without key k
Drop(m, k) == [x \in DOMAIN m \ {k} |-> m[x]]

(***************************************************************************)
(* Resource paths.                                                         *)
(***************************************************************************)
COLLECTIONS_PPATH == <<"/", "c", "o", "l", "l", "e", "c", "t", "i", "o", "n", "s">>
PRINCIPALS_PPATH == <<"/", "p", "r", "i", "n", "c", "i", "p", "a", "l", "s">>
RECORDS_PPATH == <<"/", "r", "e", "c", "o", "r", "d", "s">>
POLICIES_PPATH == <<"/", "p", "o", "l", "i", "c", "i", "e", "s">>
SUBJECTS_PPATH == <<"/", "s", "u", "b", "j", "e", "c", "t", "s">>

PolicyActionRead == "read"
PolicyActionWrite == "write"
EffectDeny == "deny"
EffectAllow == "allow"

\* fmt.Sprintf("%s/%s", COLLECTIONS_PPATH, name)
CollectionPath(name) == COLLECTIONS_PPATH \o Slash \o name

\* fmt.Sprintf("%s/%s%s", COLLECTIONS_PPATH, collectionName, RECORDS_PPATH)
RecordsPath(name) == COLLECTIONS_PPATH \o Slash \o name \o RECORDS_PPATH

\* fmt.Sprintf("%s/%s%s/%s/%s.%s", COLLECTIONS_PPATH, collectionName, RECORDS_PPATH, recordID, field, format)
FieldPath(name, recordID, field, format) ==
    COLLECTIONS_PPATH \o Slash \o name \o RECORDS_PPATH \o Slash \o recordID
        \o Slash \o field \o Dot \o format

\* fmt.Sprintf("%s/%s/", PRINCIPALS_PPATH, username)
PrincipalPath(username) == PRINCIPALS_PPATH \o Slash \o username \o Slash

\* fmt.Sprintf("%s/%s", POLICIES_PPATH, policyId)
PolicyPath(policyId) == POLICIES_PPATH \o Slash \o policyId

\* fmt.Sprintf("%s/%s", SUBJECTS_PPATH, subjectId)
SubjectPath(subjectId) == SUBJECTS_PPATH \o Slash \o subjectId

(***************************************************************************)
(* Errors and results.                                                     *)
(***************************************************************************)
Err(kind) == [kind |-> kind, resource |-> EmptyStr]
NoErr == Err("ok")
ErrNotFound == Err("NotFound")
ErrConflict == Err("Conflict")
ErrIndexError == Err("IndexError")
ValueError == Err("ValueError")
ValidationErrors == Err("ValidationErrors")
CryptoError == Err("CryptoError")
FormatError == Err("FormatError")
StorageError == Err("StorageError")
CorruptToken == Err("CorruptToken")
\* &ForbiddenError{request}: carries the rejected request's resource
ForbiddenError(resource) == [kind |-> "Forbidden", resource |-> resource]

(***************************************************************************)
(* The privatiser: a deterministic, invertible encoding that is not the    *)
(* identity (the ciphertext is the marked, reversed plaintext).            *)
(***************************************************************************)
CipherMark == "#"

Encrypt(plain) == <<CipherMark>> \o Reverse(plain)

\* vault.Priv.Encrypt as a call that can fail: under the fault "encrypt" it
\* returns an error and the empty string
PrivEncrypt(plain, fault) ==
    IF fault = "encrypt" THEN [err |-> CryptoError, value |-> EmptyStr]
    ELSE [err |-> NoErr, value |-> Encrypt(plain)]

Decrypt(cipher) ==
    IF cipher # <<>> /\ Head(cipher) = CipherMark
    THEN [err |-> NoErr, value |-> Reverse(Tail(cipher))]
    ELSE [err |-> CryptoError, value |-> EmptyStr]

(***************************************************************************)
(* The PType engine: the catalog holds the type "string", with the         *)
(* projections plain and masked.                                           *)
(***************************************************************************)
PTypeCatalog == {"string"}
Plain == <<"p", "l", "a", "i", "n">>
Masked == <<"m", "a", "s", "k", "e", "d">>

\* GetPType(PTypeName(t), value): the typed value, or an error for a type
\* that the catalog does not hold
GetPType(t, value) ==
    IF t \in PTypeCatalog THEN [err |-> NoErr, type |-> t, value |-> value]
    ELSE [err |-> ValueError, type |-> t, value |-> EmptyStr]

\* privValue.Get(format)
PTypeGet(pv, format) ==
    IF format = Plain THEN [err |-> NoErr, value |-> pv.value]
    ELSE IF format = Masked THEN [err |-> NoErr, value |-> Repeat(Star, Len(pv.value))]
    ELSE [err |-> FormatError, value |-> EmptyStr]

(***************************************************************************)
(* The policy engine.                                                      *)
(***************************************************************************)
\* a pattern with a trailing * matches every resource that extends the text
\* before the *, any other pattern matches itself only
MatchResource(pattern, resource) ==
    IF pattern # <<>> /\ pattern[Len(pattern)] = Star
    THEN HasPrefix(resource, SubSeq(pattern, 1, Len(pattern) - 1))
    ELSE pattern = resource

PolicyMatches(p, action, resource) ==
    /\ \E i \in 1..Len(p.Actions) : p.Actions[i] = action
    /\ \E i \in 1..Len(p.Resources) : MatchResource(p.Resources[i], resource)

\* EvaluateRequest(request, policies): deny wins, then allow, else deny
EvaluateRequest(action, resource, pols) ==
    LET matched == {i \in 1..Len(pols) : PolicyMatches(pols[i], action, resource)}
    IN  /\ \A i \in matched : pols[i].Effect # EffectDeny
        /\ \E i \in matched : pols[i].Effect = EffectAllow

(***************************************************************************)
(* The identifier mint: a prefix, "_" and a part never minted before.      *)
(***************************************************************************)
GenerateId(prefix, n) == prefix \o <<"_">> \o Numeral(n)


RecId(n) == GenerateId(<<"r", "e", "c">>, n)

(***************************************************************************)
(* The storage backend behind VaultDB.  A store d is a record of the maps  *)
(* it holds and of the number of identifiers minted so far.                *)
(***************************************************************************)
NoCollection == [Id |-> EmptyStr, Name |-> EmptyStr, Fields |-> EmptyMap]
NoPrincipal == [Id |-> EmptyStr, Username |-> EmptyStr, Password |-> EmptyStr, Policies |-> <<>>]
NoPolicy == [Id |-> EmptyStr, Effect |-> "", Actions |-> <<>>, Resources |-> <<>>]
NoSubject == [Id |-> EmptyStr, Eid |-> EmptyStr]

DbGetCollection(d, name) ==
    IF name \in DOMAIN d.collections
    THEN [err |-> NoErr, col |-> d.collections[name]]
    ELSE [err |-> ErrNotFound, col |-> NoCollection]

\* the names of the stored collections (as a set: the order is the backend's)
DbGetCollections(d) == [err |-> NoErr, names |-> DOMAIN d.collections]

DbCreateCollection(d, col) ==
    IF col.Name \in DOMAIN d.collections
    THEN [err |-> ErrConflict, db |-> d]
    ELSE [err |-> NoErr, db |-> [d EXCEPT !.collections = Put(@, col.Name, col)]]

\* the collection is removed; the records stored under its name stay
DbDeleteCollection(d, name) ==
    IF name \in DOMAIN d.collections
    THEN [err |-> NoErr, db |-> [d EXCEPT !.collections = Drop(@, name)]]
    ELSE [err |-> ErrNotFound, db |-> d]

\* one rec_ identifier is minted per record, in input order
DbCreateRecords(d, name, recs) ==
    LET ids == [i \in 1..Len(recs) |-> RecId(d.minted + i)]
        new == {<<name, ids[i]>> : i \in 1..Len(recs)}
        idx(k) == CHOOSE i \in 1..Len(recs) : ids[i] = k[2]
    IN  [err |-> NoErr,
         ids |-> ids,
         db  |-> [d EXCEPT !.minted = @ + Len(recs),
                           !.records = [k \in DOMAIN @ \cup new |->
                                          IF k \in new THEN recs[idx(k)] ELSE @[k]]]]

\* the stored records among the requested identifiers; a missing identifier
\* is left out of the result
DbGetRecords(d, name, ids) ==
    LET found == {i \in 1..Len(ids) : <<name, ids[i]>> \in DOMAIN d.records}
    IN  [err |-> NoErr,
         recs |-> [id \in {ids[i] : i \in found} |-> d.records[<<name, id>>]]]

\* the exact-match lookup on an indexed field, in minting order
DbGetRecordsFilter(d, name, fieldName, value) ==
    IF name \notin DOMAIN d.collections THEN [err |-> ErrNotFound, ids |-> <<>>]
    ELSE IF \/ fieldName \notin DOMAIN d.collections[name].Fields
            \/ ~d.collections[name].Fields[fieldName].IsIndexed
    THEN [err |-> ErrIndexError, ids |-> <<>>]
    ELSE LET hit == {n \in 1..d.minted :
                        /\ <<name, RecId(n)>> \in DOMAIN d.records
                        /\ fieldName \in DOMAIN d.records[<<name, RecId(n)>>]
                        /\ d.records[<<name, RecId(n)>>][fieldName] = value}
             order == Ascending(hit)
         IN  [err |-> NoErr, ids |-> [i \in 1..Len(order) |-> RecId(order[i])]]

\* a per-field patch of a stored record
DbUpdateRecord(d, name, recordID, patch) ==
    IF <<name, recordID>> \notin DOMAIN d.records THEN [err |-> ErrNotFound, db |-> d]
    ELSE LET old == d.records[<<name, recordID>>]
             new == [f \in DOMAIN old \cup DOMAIN patch |->
                        IF f \in DOMAIN patch THEN patch[f] ELSE old[f]]
         IN  [err |-> NoErr, db |-> [d EXCEPT !.records[<<name, recordID>>] = new]]

DbDeleteRecord(d, name, recordID) ==
    IF <<name, recordID>> \notin DOMAIN d.records THEN [err |-> ErrNotFound, db |-> d]
    ELSE [err |-> NoErr, db |-> [d EXCEPT !.records = Drop(@, <<name, recordID>>)]]

DbGetPrincipal(d, username) ==
    IF username \in DOMAIN d.principals
    THEN [err |-> NoErr, principal |-> d.principals[username]]
    ELSE [err |-> ErrNotFound, principal |-> NoPrincipal]

DbCreatePrincipal(d, principal) ==
    IF principal.Username \in DOMAIN d.principals
    THEN [err |-> ErrConflict, db |-> d]
    ELSE [err |-> NoErr, db |-> [d EXCEPT !.principals = Put(@, principal.Username, principal)]]

DbDeletePrincipal(d, username) ==
    IF username \in DOMAIN d.principals
    THEN [err |-> NoErr, db |-> [d EXCEPT !.principals = Drop(@, username)]]
    ELSE [err |-> ErrNotFound, db |-> d]

DbGetPolicy(d, policyId) ==
    IF policyId \in DOMAIN d.policies
    THEN [err |-> NoErr, policy |-> d.policies[policyId]]
    ELSE [err |-> ErrNotFound, policy |-> NoPolicy]

\* the stored policies among the requested identifiers, in the order asked;
\* an identifier with no stored policy is left out.  fault "policies" is the
\* backend failing this fetch.
DbGetPolicies(d, policyIds, fault) ==
    IF fault = "policies" THEN [err |-> StorageError, pols |-> <<>>]
    ELSE LET Stored(id) == id \in DOMAIN d.policies
             kept == SelectSeq(policyIds, Stored)
         IN  [err |-> NoErr, pols |-> [i \in 1..Len(kept) |-> d.policies[kept[i]]]]

DbCreatePolicy(d, p) ==
    IF p.Id \in DOMAIN d.policies
    THEN [err |-> ErrConflict, db |-> d]
    ELSE [err |-> NoErr, db |-> [d EXCEPT !.policies = Put(@, p.Id, p)]]

DbDeletePolicy(d, policyId) ==
    IF policyId \in DOMAIN d.policies
    THEN [err |-> NoErr, db |-> [d EXCEPT !.policies = Drop(@, policyId)]]
    ELSE [err |-> ErrNotFound, db |-> d]

DbCreateToken(d, tokenId, value) ==
    [err |-> NoErr, db |-> [d EXCEPT !.tokens = Put(@, tokenId, value)]]

DbDeleteToken(d, tokenId) ==
    IF tokenId \in DOMAIN d.tokens
    THEN [err |-> NoErr, db |-> [d EXCEPT !.tokens = Drop(@, tokenId)]]
    ELSE [err |-> ErrNotFound, db |-> d]

DbGetTokenValue(d, tokenId) ==
    IF tokenId \in DOMAIN d.tokens
    THEN [err |-> NoErr, value |-> d.tokens[tokenId]]
    ELSE [err |-> ErrNotFound, value |-> EmptyStr]

DbCreateSubject(d, subject) ==
    IF subject.Id \in DOMAIN d.subjects
    THEN [err |-> ErrConflict, db |-> d]
    ELSE [err |-> NoErr, db |-> [d EXCEPT !.subjects = Put(@, subject.Id, subject)]]

DbGetSubject(d, subjectId) ==
    IF subjectId \in DOMAIN d.subjects
    THEN [err |-> NoErr, subject |-> d.subjects[subjectId]]
    ELSE [err |-> ErrNotFound, subject |-> NoSubject]

DbDeleteSubject(d, subjectId) ==
    IF subjectId \in DOMAIN d.subjects
    THEN [err |-> NoErr, db |-> [d EXCEPT !.subjects = Drop(@, subjectId)]]
    ELSE [err |-> ErrNotFound, db |-> d]

(***************************************************************************)
(* Vault.ValidateAction and Vault.Validate.                                *)
(***************************************************************************)
\* a ValidateAction that decides on the first fetched policy alone
ValidateActionFirst(d, actor, action, resource, fault) ==
    LET got == DbGetPolicies(d, actor.Policies, fault)
    IN  IF got.err # NoErr THEN [err |-> got.err, allowed |-> FALSE]
        ELSE [err |-> NoErr,
              allowed |-> EvaluateRequest(action, resource, SubSeq(got.pols, 1, 1))]

\* the policies of request.Actor are fetched, then evaluated
ValidateAction(d, actor, action, resource, fault) ==
    LET got == DbGetPolicies(d, actor.Policies, fault)
    IN  IF got.err # NoErr THEN [err |-> got.err, allowed |-> FALSE]
        ELSE [err |-> NoErr, allowed |-> EvaluateRequest(action, resource, got.pols)]

\* Collection: Name required,min=3,max=32
ValidateCollection(col) == Len(col.Name) >= 3 /\ Len(col.Name) <= 32

\* Principal: Username required,min=3,max=32; Password required,min=3
ValidatePrincipal(p) ==
    /\ Len(p.Username) >= 3 /\ Len(p.Username) <= 32
    /\ Len(p.Password) >= 3

\* Policy: Effect required (Actions and Resources are slices: present)
ValidatePolicy(p) == p.Effect # ""

\* Subject: Eid required
ValidateSubject(s) == s.Eid # EmptyStr

(***************************************************************************)
(* Password hashing (bcrypt): the stored hash is never the password.       *)
(***************************************************************************)
\* bcrypt.GenerateFromPassword
GenerateFromPassword(password) == <<"$", "2", "a", "$">> \o Reverse(password)

\* bcrypt.CompareHashAndPassword: TRUE when the password matches the hash
CompareHashAndPassword(hash, password) == hash = GenerateFromPassword(password)

(***************************************************************************)
(* The operations of Vault.  Each is a function of the store d, the        *)
(* caller's Principal value actor, the arguments and the fault the backend *)
(* shows during the call; its value is the set of outcomes the call can    *)
(* have (more than one where the code ranges over a Go map, whose order is *)
(* not fixed).  An outcome holds the store after the call, the error       *)
(* returned ("ok" for none) and the value returned.                        *)
(***************************************************************************)
Outcome(d, e, v) == [db |-> d, err |-> e, val |-> v]

\* the gate every operation opens with: the error to return, or "ok"
Gate(d, actor, action, resource, fault) ==
    LET v == ValidateAction(d, actor, action, resource, fault)
    IN  IF v.err # NoErr THEN v.err
        ELSE IF ~v.allowed THEN ForbiddenError(resource)
        ELSE NoErr

GetCollection(d, actor, name, fault) ==
    LET g == Gate(d, actor, PolicyActionRead, CollectionPath(name), fault)
    IN  IF g # NoErr THEN {Outcome(d, g, NoCollection)}
        ELSE LET c == DbGetCollection(d, name) IN {Outcome(d, c.err, c.col)}

GetCollections(d, actor, fault) ==
    LET g == Gate(d, actor, PolicyActionRead, COLLECTIONS_PPATH, fault)
    IN  IF g # NoErr THEN {Outcome(d, g, {})}
        ELSE LET c == DbGetCollections(d) IN {Outcome(d, c.err, c.names)}

CreateCollection(d, actor, col, fault) ==
    LET g == Gate(d, actor, PolicyActionWrite, COLLECTIONS_PPATH, fault)
    IN  IF g # NoErr THEN {Outcome(d, g, EmptyStr)}
        ELSE IF ~ValidateCollection(col) THEN {Outcome(d, ValidationErrors, EmptyStr)}
        ELSE LET id == GenerateId(<<"c", "o", "l">>, d.minted + 1)
                 r == DbCreateCollection(d, [col EXCEPT !.Id = id])
             IN  IF r.err # NoErr THEN {Outcome(d, r.err, EmptyStr)}
                 ELSE {Outcome([r.db EXCEPT !.minted = @ + 1], NoErr, id)}

DeleteCollection(d, actor, name, fault) ==
    LET g == Gate(d, actor, PolicyActionWrite, CollectionPath(name), fault)
    IN  IF g # NoErr THEN {Outcome(d, g, EmptyStr)}
        ELSE LET r == DbDeleteCollection(d, name) IN {Outcome(r.db, r.err, EmptyStr)}

\* the error of one field of an input record, "ok" when it passes
FieldError(col, fieldName, fieldValue) ==
    IF fieldName \notin DOMAIN col.Fields THEN ValueError
    ELSE GetPType(col.Fields[fieldName].Type, fieldValue).err

\* a CreateRecords that stores each record as soon as it has passed
CreateRecordsEager(d, actor, name, recs, fault) ==
    LET g == Gate(d, actor, PolicyActionWrite, RecordsPath(name), fault)
    IN  IF g # NoErr THEN {Outcome(d, g, <<>>)}
        ELSE LET c == DbGetCollection(d, name)
             IN  IF c.err # NoErr THEN {Outcome(d, c.err, <<>>)}
                 ELSE LET bad(i) == {f \in DOMAIN recs[i] : FieldError(c.col, f, recs[i][f]) # NoErr}
                          stops == {i \in 1..Len(recs) : bad(i) # {}}
                          upto == IF stops = {} THEN Len(recs) ELSE Min(stops) - 1
                          enc == [i \in 1..upto |->
                                    [f \in DOMAIN recs[i] |-> Encrypt(recs[i][f])]]
                          r == DbCreateRecords(d, name, enc)
                      IN  IF stops # {}
                          THEN {Outcome(r.db, FieldError(c.col, f, recs[Min(stops)][f]), <<>>) :
                                   f \in bad(Min(stops))}
                          ELSE {Outcome(r.db, r.err, r.ids)}

CreateRecords(d, actor, name, recs, fault) ==
    LET g == Gate(d, actor, PolicyActionWrite, RecordsPath(name), fault)
    IN  IF g # NoErr THEN {Outcome(d, g, <<>>)}
        ELSE LET c == DbGetCollection(d, name)
             IN  IF c.err # NoErr THEN {Outcome(d, c.err, <<>>)}
                 ELSE LET bad(i) == {f \in DOMAIN recs[i] : FieldError(c.col, f, recs[i][f]) # NoErr}
                          stops == {i \in 1..Len(recs) : bad(i) # {}}
                          enc == [i \in 1..Len(recs) |->
                                    [f \in DOMAIN recs[i] |-> Encrypt(recs[i][f])]]
                          r == DbCreateRecords(d, name, enc)
                          \* with Encrypt failing, the loop ends at the first
                          \* field it meets: on the error of its check, or on
                          \* the error of Encrypt when the field passes
                          failing == {i \in 1..Len(recs) : DOMAIN recs[i] # {}}
                      IN  IF fault = "encrypt" /\ failing # {}
                          THEN LET i == Min(failing)
                               IN  {Outcome(d, IF f \in bad(i)
                                               THEN FieldError(c.col, f, recs[i][f])
                                               ELSE PrivEncrypt(recs[i][f], fault).err, <<>>) :
                                       f \in DOMAIN recs[i]}
                          ELSE IF stops # {}
                          THEN LET i == Min(stops)
                               IN  {Outcome(d, FieldError(c.col, f, recs[i][f]), <<>>) : f \in bad(i)}
                          ELSE {Outcome(r.db, r.err, r.ids)}

\* a Cell that hands the decrypted value out whatever the format asked for
CellPlain(col, rec, field, format) ==
    LET dec == Decrypt(IF field \in DOMAIN rec THEN rec[field] ELSE EmptyStr)
        pv == GetPType(col.Fields[field].Type, dec.value)
    IN  IF dec.err # NoErr THEN dec
        ELSE IF pv.err # NoErr THEN [err |-> pv.err, value |-> EmptyStr]
        ELSE [err |-> NoErr, value |-> pv.value]

\* one requested field of one fetched record: decrypted, typed, projected
Cell(col, rec, field, format) ==
    LET dec == Decrypt(IF field \in DOMAIN rec THEN rec[field] ELSE EmptyStr)
        pv == GetPType(col.Fields[field].Type, dec.value)
    IN  IF dec.err # NoErr THEN dec
        ELSE IF pv.err # NoErr THEN [err |-> pv.err, value |-> EmptyStr]
        ELSE PTypeGet(pv, format)

GetRecords(d, actor, name, recordIDs, returnFormats, fault) ==
    IF Len(recordIDs) = 0 THEN {Outcome(d, ValueError, EmptyMap)}
    ELSE
    LET reqs(i) == {FieldPath(name, recordIDs[i], f, returnFormats[f]) : f \in DOMAIN returnFormats}
        stop(i) == {r \in reqs(i) : Gate(d, actor, PolicyActionRead, r, fault) # NoErr}
        stops == {i \in 1..Len(recordIDs) : stop(i) # {}}
        c == DbGetCollection(d, name)
        got == DbGetRecords(d, name, recordIDs).recs
        failed == {Cell(c.col, got[id], f, returnFormats[f]).err :
                       id \in DOMAIN got, f \in DOMAIN returnFormats} \ {NoErr}
    IN  IF stops # {}
        THEN {Outcome(d, Gate(d, actor, PolicyActionRead, r, fault), EmptyMap) : r \in stop(Min(stops))}
        ELSE IF c.err # NoErr THEN {Outcome(d, c.err, EmptyMap)}
        ELSE IF \E f \in DOMAIN returnFormats : f \notin DOMAIN c.col.Fields
        THEN {Outcome(d, ErrNotFound, EmptyMap)}
        ELSE IF DOMAIN got = {} THEN {Outcome(d, ErrNotFound, EmptyMap)}
        ELSE IF failed # {} THEN {Outcome(d, e, EmptyMap) : e \in failed}
        ELSE {Outcome(d, NoErr,
                [id \in DOMAIN got |->
                    [f \in DOMAIN returnFormats |->
                        Cell(c.col, got[id], f, returnFormats[f]).value]])}

\* a GetRecordsFilter that drops the error of the lookup
GetRecordsFilterLenient(d, actor, name, fieldName, value, returnFormats, fault) ==
    LET val == Encrypt(value)
        r == DbGetRecordsFilter(d, name, fieldName, val)
    IN  GetRecords(d, actor, name, r.ids, returnFormats, fault)

\* a GetRecordsFilter that reads the first record found only
GetRecordsFilterFirst(d, actor, name, fieldName, value, returnFormats, fault) ==
    LET val == Encrypt(value)
        r == DbGetRecordsFilter(d, name, fieldName, val)
    IN  IF r.err # NoErr THEN {Outcome(d, r.err, EmptyMap)}
        ELSE GetRecords(d, actor, name,
                        IF r.ids = <<>> THEN r.ids ELSE <<Head(r.ids)>>,
                        returnFormats, fault)

GetRecordsFilter(d, actor, name, fieldName, value, returnFormats, fault) ==
    LET val == PrivEncrypt(value, fault).value
        r == DbGetRecordsFilter(d, name, fieldName, val)
    IN  IF r.err # NoErr THEN {Outcome(d, r.err, EmptyMap)}
        ELSE GetRecords(d, actor, name, r.ids, returnFormats, fault)

\* an UpdateRecord that hands the patch to the storage as it came
UpdateRecordPlain(d, actor, name, recordID, record, fault) ==
    LET g == Gate(d, actor, PolicyActionWrite, RecordsPath(name), fault)
    IN  IF g # NoErr THEN {Outcome(d, g, EmptyStr)}
        ELSE LET r == DbUpdateRecord(d, name, recordID, record)
             IN  {Outcome(r.db, r.err, EmptyStr)}

UpdateRecord(d, actor, name, recordID, record, fault) ==
    LET g == Gate(d, actor, PolicyActionWrite, RecordsPath(name), fault)
    IN  IF g # NoErr THEN {Outcome(d, g, EmptyStr)}
        ELSE IF fault = "encrypt" /\ DOMAIN record # {}
        THEN {Outcome(d, PrivEncrypt(record[f], fault).err, EmptyStr) : f \in DOMAIN record}
        ELSE LET enc == [f \in DOMAIN record |-> Encrypt(record[f])]
                 r == DbUpdateRecord(d, name, recordID, enc)
             IN  {Outcome(r.db, r.err, EmptyStr)}

\* a DeleteRecord that reports success and leaves the record stored
DeleteRecordKeep(d, actor, name, recordID, fault) ==
    LET g == Gate(d, actor, PolicyActionWrite, RecordsPath(name), fault)
    IN  IF g # NoErr THEN {Outcome(d, g, EmptyStr)}
        ELSE {Outcome(d, DbDeleteRecord(d, name, recordID).err, EmptyStr)}

\* a DeleteRecord that deletes ahead of the gate
DeleteRecordUngated(d, actor, name, recordID, fault) ==
    LET g == Gate(d, actor, PolicyActionWrite, RecordsPath(name), fault)
        r == DbDeleteRecord(d, name, recordID)
    IN  IF g # NoErr THEN {Outcome(r.db, g, EmptyStr)}
        ELSE {Outcome(r.db, r.err, EmptyStr)}

DeleteRecord(d, actor, name, recordID, fault) ==
    LET g == Gate(d, actor, PolicyActionWrite, RecordsPath(name), fault)
    IN  IF g # NoErr THEN {Outcome(d, g, EmptyStr)}
        ELSE LET r == DbDeleteRecord(d, name, recordID) IN {Outcome(r.db, r.err, EmptyStr)}

GetPrincipal(d, actor, username, fault) ==
    LET g == Gate(d, actor, PolicyActionRead, PrincipalPath(username), fault)
    IN  IF g # NoErr THEN {Outcome(d, g, NoPrincipal)}
        ELSE LET r == DbGetPrincipal(d, username) IN {Outcome(d, r.err, r.principal)}

\* a CreatePrincipal that writes over the stored principal of the same name
CreatePrincipalOver(d, actor, principal, fault) ==
    LET g == Gate(d, actor, PolicyActionWrite, PRINCIPALS_PPATH, fault)
        hashed == [principal EXCEPT !.Password = GenerateFromPassword(principal.Password),
                                    !.Id = GenerateId(<<"p", "r", "i", "n">>, d.minted + 1)]
    IN  IF g # NoErr THEN {Outcome(d, g, principal)}
        ELSE IF ~ValidatePrincipal(hashed) THEN {Outcome(d, ValidationErrors, hashed)}
        ELSE {Outcome([d EXCEPT !.principals = Put(@, hashed.Username, hashed),
                                !.minted = @ + 1], NoErr, hashed)}

\* val is the caller's principal as the call leaves it
CreatePrincipal(d, actor, principal, fault) ==
    LET g == Gate(d, actor, PolicyActionWrite, PRINCIPALS_PPATH, fault)
        hashed == [principal EXCEPT !.Password = GenerateFromPassword(principal.Password),
                                    !.Id = GenerateId(<<"p", "r", "i", "n">>, d.minted + 1)]
        r == DbCreatePrincipal(d, hashed)
    IN  IF g # NoErr THEN {Outcome(d, g, principal)}
        ELSE IF ~ValidatePrincipal(hashed) THEN {Outcome(d, ValidationErrors, hashed)}
        ELSE IF r.err # NoErr THEN {Outcome(d, r.err, hashed)}
        ELSE {Outcome([r.db EXCEPT !.minted = @ + 1], NoErr, hashed)}

DeletePrincipal(d, actor, username, fault) ==
    LET g == Gate(d, actor, PolicyActionWrite, PrincipalPath(username), fault)
    IN  IF g # NoErr THEN {Outcome(d, g, EmptyStr)}
        ELSE LET r == DbDeletePrincipal(d, username) IN {Outcome(r.db, r.err, EmptyStr)}

\* not policy-gated
Login(d, username, password) ==
    LET r == DbGetPrincipal(d, username)
    IN  IF username = EmptyStr \/ password = EmptyStr THEN {Outcome(d, ValueError, NoPrincipal)}
        ELSE IF r.err # NoErr THEN {Outcome(d, ForbiddenError(EmptyStr), NoPrincipal)}
        ELSE IF r.principal.Username = EmptyStr \/ r.principal.Password = EmptyStr
        THEN {Outcome(d, ForbiddenError(EmptyStr), NoPrincipal)}
        ELSE IF ~CompareHashAndPassword(r.principal.Password, password)
        THEN {Outcome(d, ForbiddenError(EmptyStr), NoPrincipal)}
        ELSE {Outcome(d, NoErr, r.principal)}

CreatePolicy(d, actor, p, fault) ==
    LET g == Gate(d, actor, PolicyActionWrite, POLICIES_PPATH, fault)
        id == GenerateId(<<"p", "o", "l">>, d.minted + 1)
        r == DbCreatePolicy(d, [p EXCEPT !.Id = id])
    IN  IF \E i \in 1..Len(p.Resources) : ~HasPrefix(p.Resources[i], Slash)
        THEN {Outcome(d, ValueError, EmptyStr)}
        ELSE IF g # NoErr THEN {Outcome(d, g, EmptyStr)}
        ELSE IF ~ValidatePolicy(p) THEN {Outcome(d, ValidationErrors, EmptyStr)}
        ELSE IF r.err # NoErr THEN {Outcome(d, r.err, EmptyStr)}
        ELSE {Outcome([r.db EXCEPT !.minted = @ + 1], NoErr, id)}

GetPolicy(d, actor, policyId, fault) ==
    LET g == Gate(d, actor, PolicyActionRead, PolicyPath(policyId), fault)
    IN  IF g # NoErr THEN {Outcome(d, g, NoPolicy)}
        ELSE LET r == DbGetPolicy(d, policyId) IN {Outcome(d, r.err, r.policy)}

DeletePolicy(d, actor, policyId, fault) ==
    LET g == Gate(d, actor, PolicyActionWrite, PolicyPath(policyId), fault)
    IN  IF g # NoErr THEN {Outcome(d, g, EmptyStr)}
        ELSE LET r == DbDeletePolicy(d, policyId) IN {Outcome(r.db, r.err, EmptyStr)}

GetPrincipalPolicies(d, actor, fault) ==
    LET g == Gate(d, actor, PolicyActionRead, POLICIES_PPATH, fault)
    IN  IF g # NoErr THEN {Outcome(d, g, <<>>)}
        ELSE LET r == DbGetPolicies(d, actor.Policies, fault) IN {Outcome(d, r.err, r.pols)}

\* fmt.Sprintf("%s/%s/%s/%s", collectionName, recordId, fieldName, returnFormat)
TokenPayload(name, recordId, fieldName, returnFormat) ==
    name \o Slash \o recordId \o Slash \o fieldName \o Slash \o returnFormat

CreateToken(d, actor, name, recordId, fieldName, returnFormat, fault) ==
    LET got == GetRecords(d, actor, name, <<recordId>>,
                          [f \in {fieldName} |-> returnFormat], fault)
        tokenId == GenerateId(<<"t", "o", "k">>, d.minted + 1)
        Store(g) ==
            IF g.err # NoErr THEN {Outcome(d, g.err, EmptyStr)}
            ELSE IF DOMAIN g.val = {} THEN {Outcome(d, ErrNotFound, EmptyStr)}
            ELSE {LET r == DbCreateToken(d, tokenId,
                                TokenPayload(name, id, fieldName, returnFormat))
                  IN  IF r.err # NoErr THEN Outcome(d, r.err, EmptyStr)
                      ELSE Outcome([r.db EXCEPT !.minted = @ + 1], NoErr, tokenId)
                  : id \in DOMAIN g.val}
    IN  UNION {Store(g) : g \in got}

\* not policy-gated
DeleteToken(d, tokenId) ==
    LET r == DbDeleteToken(d, tokenId) IN {Outcome(r.db, r.err, EmptyStr)}

GetTokenValue(d, actor, tokenId, fault) ==
    LET t == DbGetTokenValue(d, tokenId)
        parts == Split(t.value, "/")
        Pick(g) ==
            IF g.err # NoErr THEN {Outcome(d, g.err, EmptyMap)}
            ELSE IF DOMAIN g.val = {} THEN {Outcome(d, ErrNotFound, EmptyMap)}
            ELSE {Outcome(d, NoErr, g.val[id]) : id \in DOMAIN g.val}
    IN  IF t.err # NoErr THEN {Outcome(d, t.err, EmptyMap)}
        ELSE IF Len(parts) # 4 THEN {Outcome(d, CorruptToken, EmptyMap)}
        ELSE UNION {Pick(g) : g \in GetRecords(d, actor, parts[1], <<parts[2]>>,
                                               [f \in {parts[3]} |-> parts[4]], fault)}

CreateSubject(d, actor, subject, fault) ==
    LET g == Gate(d, actor, PolicyActionWrite, SUBJECTS_PPATH, fault)
        id == GenerateId(<<"s", "u", "b">>, d.minted + 1)
        r == DbCreateSubject(d, [subject EXCEPT !.Id = id])
    IN  IF g # NoErr THEN {Outcome(d, g, EmptyStr)}
        ELSE IF ~ValidateSubject(subject) THEN {Outcome(d, ValidationErrors, EmptyStr)}
        ELSE IF r.err # NoErr THEN {Outcome(d, r.err, EmptyStr)}
        ELSE {Outcome([r.db EXCEPT !.minted = @ + 1], NoErr, id)}

GetSubject(d, actor, subjectId, fault) ==
    LET g == Gate(d, actor, PolicyActionRead, SubjectPath(subjectId), fault)
    IN  IF g # NoErr THEN {Outcome(d, g, NoSubject)}
        ELSE LET r == DbGetSubject(d, subjectId) IN {Outcome(d, r.err, r.subject)}

DeleteSubject(d, actor, subjectId, fault) ==
    LET g == Gate(d, actor, PolicyActionWrite, SubjectPath(subjectId), fault)
    IN  IF g # NoErr THEN {Outcome(d, g, EmptyStr)}
        ELSE LET r == DbDeleteSubject(d, subjectId) IN {Outcome(r.db, r.err, EmptyStr)}

(***************************************************************************)
(* The values the operations are called with.                              *)
(***************************************************************************)
ColCus == <<"c", "u", "s">>
ColCcs == <<"c", "c", "s">>
ColNames == {ColCus, ColCcs}

Fn == <<"f", "n">>
Ln == <<"l", "n">>
Zz == <<"z", "z">>
\* a field name that holds the separator of the token payload
Sl == <<"f", "/", "n">>
FieldNames == {Fn, Ln, Zz, Sl}

Raw == <<"r", "a", "w">>
FormatNames == {Plain, Masked, Raw}

VBob == <<"B", "o", "b">>
VAl == <<"A", "l">>
Values == {VBob, VAl}

\* fn indexed, ln not indexed, both of type string
SchemaFull == [f \in {Fn, Ln} |->
                 [Type |-> "string", IsIndexed |-> f = Fn]]
\* f/n of type string, ln of a type the catalog does not hold, none indexed
SchemaOdd == [f \in {Sl, Ln} |->
                 [Type |-> IF f = Sl THEN "string" ELSE "number", IsIndexed |-> FALSE]]

CollectionInputs ==
    {[Id |-> EmptyStr, Name |-> ColCus, Fields |-> SchemaFull],
     [Id |-> EmptyStr, Name |-> ColCus, Fields |-> SchemaOdd],
     [Id |-> EmptyStr, Name |-> <<"c", "c">>, Fields |-> SchemaFull]}

RecBob == [f \in {Fn} |-> VBob]
RecAl == [f \in {Fn, Ln} |-> IF f = Fn THEN VAl ELSE VBob]
RecZz == [f \in {Zz} |-> VBob]
RecSl == [f \in {Sl} |-> VBob]
BatchInputs == {<<RecBob>>, <<RecSl>>, <<RecBob, RecAl>>, <<RecBob, RecZz>>}

PatchInputs == {[f \in {Fn} |-> VAl], [f \in {Zz} |-> VAl]}

FormatInputs ==
    {EmptyMap,
     [f \in {Fn} |-> Plain],
     [f \in {Fn, Ln} |-> IF f = Fn THEN Masked ELSE Plain],
     [f \in {Zz} |-> Plain],
     [f \in {Fn} |-> Raw]}

RecIds == {RecId(n) : n \in 1..MaxIds}
TokIds == {GenerateId(<<"t", "o", "k">>, n) : n \in 1..MaxIds}
IdListInputs ==
    {<<>>} \cup {<<id>> : id \in RecIds}
           \cup {<<RecId(n), RecId(n + 1)>> : n \in 1..(MaxIds - 1)}

\* the policies the store is set up with, and the callers
PolRoot == <<"r", "o", "o", "t">>
PolCus == <<"r", "c", "u", "s">>
PolGone == <<"g", "o", "n", "e">>

RootPolicy == [Id |-> PolRoot, Effect |-> EffectAllow,
               Actions |-> <<PolicyActionRead, PolicyActionWrite>>,
               Resources |-> <<<<"/", "*">>>>]
CusPolicy == [Id |-> PolCus, Effect |-> EffectAllow,
              Actions |-> <<PolicyActionRead>>,
              Resources |-> <<CollectionPath(ColCus) \o <<"*">>>>]

\* a caller is the Principal value handed to the operation
Root == [Username |-> <<"r", "o", "o", "t">>, Policies |-> <<PolRoot>>]
Limited == [Username |-> <<"l", "t", "d">>, Policies |-> <<PolCus>>]
Nobody == [Username |-> <<"n", "o", "b">>, Policies |-> <<>>]
Ghost == [Username |-> <<"g", "h", "o">>, Policies |-> <<PolGone>>]
Actors == {Root, Limited, Nobody, Ghost}

Faults == {"none", "policies"}

\* the calls the state machine takes, as caller and fault met: Root, Limited
\* and Nobody without a fault, and Root with the policy fetch failing
Calls == {<<a, "none">> : a \in {Root, Limited, Nobody}} \cup {<<Root, "policies">>}

UserBob == <<"b", "o", "b">>
UserAl == <<"a", "l">>
Usernames == {UserBob, UserAl}
PwGood == <<"p", "w", "1">>
PrincipalInputs ==
    {[Id |-> EmptyStr, Username |-> UserBob, Password |-> PwGood, Policies |-> <<PolCus>>],
     [Id |-> EmptyStr, Username |-> UserAl, Password |-> PwGood, Policies |-> <<>>]}

PolicyInputs ==
    {[Id |-> EmptyStr, Effect |-> EffectAllow, Actions |-> <<PolicyActionRead>>,
      Resources |-> <<CollectionPath(ColCcs) \o <<"*">>>>],
     [Id |-> EmptyStr, Effect |-> EffectAllow, Actions |-> <<PolicyActionRead>>,
      Resources |-> <<Tail(COLLECTIONS_PPATH)>>],
     [Id |-> EmptyStr, Effect |-> "", Actions |-> <<PolicyActionRead>>,
      Resources |-> <<COLLECTIONS_PPATH>>]}
PolicyIds == {PolCus} \cup {GenerateId(<<"p", "o", "l">>, n) : n \in 1..MaxIds}

SubjectInputs == {[Id |-> EmptyStr, Eid |-> <<"e", "1">>], [Id |-> EmptyStr, Eid |-> EmptyStr]}
SubjectIds == {GenerateId(<<"s", "u", "b">>, n) : n \in 1..MaxIds}

(***************************************************************************)
(* The state machine.                                                      *)
(***************************************************************************)
\* the store the operations act on
DB == [collections |-> collections, records |-> records, principals |-> principals,
       policies |-> policies, tokens |-> tokens, subjects |-> subjects,
       minted |-> minted]

\* the store as set up: the root and customer policies, nothing else
InitDB == [collections |-> EmptyMap, records |-> EmptyMap, principals |-> EmptyMap,
           policies |-> [id \in {PolRoot, PolCus} |->
                            IF id = PolRoot THEN RootPolicy ELSE CusPolicy],
           tokens |-> EmptyMap, subjects |-> EmptyMap, minted |-> 0]

NoCall == [op |-> "none", kind |-> "ok", denied |-> FALSE]

Init ==
    /\ collections = InitDB.collections
    /\ records = InitDB.records
    /\ principals = InitDB.principals
    /\ policies = InitDB.policies
    /\ tokens = InitDB.tokens
    /\ subjects = InitDB.subjects
    /\ minted = InitDB.minted
    /\ last = NoCall

\* the policy engine's decision on a request of the caller is deny
Denies(d, actor, action, resource) ==
    ~ValidateAction(d, actor, action, resource, "none").allowed

\* the caller may read nothing under the collection
CollectionDenied(d, actor, name) ==
    /\ Denies(d, actor, PolicyActionRead, RecordsPath(name))
    /\ \A id \in RecIds, f \in FieldNames, fmt \in FormatNames :
          Denies(d, actor, PolicyActionRead, FieldPath(name, id, f, fmt))

\* the requests GetRecords raises are denied; with no request to raise, the
\* caller may read nothing under the collection
GetRecordsDenied(d, actor, name, recordIDs, returnFormats) ==
    LET reqs == {FieldPath(name, recordIDs[i], f, returnFormats[f]) :
                    i \in 1..Len(recordIDs), f \in DOMAIN returnFormats}
    IN  IF reqs = {} THEN CollectionDenied(d, actor, name)
        ELSE \E r \in reqs : Denies(d, actor, PolicyActionRead, r)

\* the request a token stands for is denied; for a token that names no
\* request, the caller may read nothing under any collection
TokenDenied(d, actor, tokenId) ==
    LET t == DbGetTokenValue(d, tokenId)
        parts == Split(t.value, "/")
    IN  IF t.err = NoErr /\ Len(parts) = 4
        THEN Denies(d, actor, PolicyActionRead,
                    FieldPath(parts[1], parts[2], parts[3], parts[4]))
        ELSE \A name \in ColNames : CollectionDenied(d, actor, name)

\* a call of op with outcome o is taken (the Do actions take one while no
\* reply is pending): the store becomes o.db and the reply is on its way
Apply(op, o, den) ==
    /\ o.db.minted <= MaxIds
    /\ collections' = o.db.collections
    /\ records' = o.db.records
    /\ principals' = o.db.principals
    /\ policies' = o.db.policies
    /\ tokens' = o.db.tokens
    /\ subjects' = o.db.subjects
    /\ minted' = o.db.minted
    /\ last' = [op |-> op, kind |-> o.err.kind, denied |-> den]

DoGetCollection ==
    /\ last = NoCall
    /\ \E c \in Calls, name \in ColNames :
           \E o \in GetCollection(DB, c[1], name, c[2]) :
               Apply("GetCollection", o, Denies(DB, c[1], PolicyActionRead, CollectionPath(name)))

DoGetCollections ==
    /\ last = NoCall
    /\ \E c \in Calls :
           \E o \in GetCollections(DB, c[1], c[2]) :
               Apply("GetCollections", o, Denies(DB, c[1], PolicyActionRead, COLLECTIONS_PPATH))

DoCreateCollection ==
    /\ last = NoCall
    /\ \E c \in Calls, col \in CollectionInputs :
           \E o \in CreateCollection(DB, c[1], col, c[2]) :
               Apply("CreateCollection", o, Denies(DB, c[1], PolicyActionWrite, COLLECTIONS_PPATH))

DoDeleteCollection ==
    /\ last = NoCall
    /\ \E c \in Calls, name \in ColNames :
           \E o \in DeleteCollection(DB, c[1], name, c[2]) :
               Apply("DeleteCollection", o, Denies(DB, c[1], PolicyActionWrite, CollectionPath(name)))

DoCreateRecords ==
    /\ last = NoCall
    /\ \E c \in Calls, name \in ColNames, recs \in BatchInputs :
           \E o \in CreateRecords(DB, c[1], name, recs, c[2]) :
               Apply("CreateRecords", o, Denies(DB, c[1], PolicyActionWrite, RecordsPath(name)))

DoGetRecords ==
    /\ last = NoCall
    /\ \E c \in Calls, name \in ColNames, ids \in IdListInputs,
          fmts \in {EmptyMap, [f \in {Fn} |-> Plain],
                    [f \in {Fn, Ln} |-> IF f = Fn THEN Masked ELSE Plain]} :
           \E o \in GetRecords(DB, c[1], name, ids, fmts, c[2]) :
               Apply("GetRecords", o, GetRecordsDenied(DB, c[1], name, ids, fmts))

DoGetRecordsFilter ==
    /\ last = NoCall
    /\ \E c \in Calls, name \in ColNames, fld \in {Fn, Ln}, v \in Values,
          fmts \in {EmptyMap, [f \in {Fn} |-> Plain]} :
           \E o \in GetRecordsFilter(DB, c[1], name, fld, v, fmts, c[2]) :
               Apply("GetRecordsFilter", o, CollectionDenied(DB, c[1], name))

DoUpdateRecord ==
    /\ last = NoCall
    /\ \E c \in Calls, name \in ColNames, id \in RecIds, patch \in PatchInputs :
           \E o \in UpdateRecord(DB, c[1], name, id, patch, c[2]) :
               Apply("UpdateRecord", o, Denies(DB, c[1], PolicyActionWrite, RecordsPath(name)))

DoDeleteRecord ==
    /\ last = NoCall
    /\ \E c \in Calls, name \in ColNames, id \in RecIds :
           \E o \in DeleteRecord(DB, c[1], name, id, c[2]) :
               Apply("DeleteRecord", o, Denies(DB, c[1], PolicyActionWrite, RecordsPath(name)))

DoGetPrincipal ==
    /\ last = NoCall
    /\ \E c \in Calls, u \in Usernames :
           \E o \in GetPrincipal(DB, c[1], u, c[2]) :
               Apply("GetPrincipal", o, Denies(DB, c[1], PolicyActionRead, PrincipalPath(u)))

DoCreatePrincipal ==
    /\ last = NoCall
    /\ \E c \in Calls, p \in PrincipalInputs :
           \E o \in CreatePrincipal(DB, c[1], p, c[2]) :
               Apply("CreatePrincipal", o, Denies(DB, c[1], PolicyActionWrite, PRINCIPALS_PPATH))

DoDeletePrincipal ==
    /\ last = NoCall
    /\ \E c \in Calls, u \in Usernames :
           \E o \in DeletePrincipal(DB, c[1], u, c[2]) :
               Apply("DeletePrincipal", o, Denies(DB, c[1], PolicyActionWrite, PrincipalPath(u)))

DoLogin ==
    /\ last = NoCall
    /\ \E u \in Usernames \cup {EmptyStr}, pw \in {PwGood, <<"b", "a", "d">>, EmptyStr} :
           \E o \in Login(DB, u, pw) :
               Apply("Login", o, FALSE)

DoCreatePolicy ==
    /\ last = NoCall
    /\ \E c \in Calls, p \in PolicyInputs :
           \E o \in CreatePolicy(DB, c[1], p, c[2]) :
               Apply("CreatePolicy", o, Denies(DB, c[1], PolicyActionWrite, POLICIES_PPATH))

DoGetPolicy ==
    /\ last = NoCall
    /\ \E c \in Calls, id \in PolicyIds :
           \E o \in GetPolicy(DB, c[1], id, c[2]) :
               Apply("GetPolicy", o, Denies(DB, c[1], PolicyActionRead, PolicyPath(id)))

DoDeletePolicy ==
    /\ last = NoCall
    /\ \E c \in Calls, id \in PolicyIds :
           \E o \in DeletePolicy(DB, c[1], id, c[2]) :
               Apply("DeletePolicy", o, Denies(DB, c[1], PolicyActionWrite, PolicyPath(id)))

DoGetPrincipalPolicies ==
    /\ last = NoCall
    /\ \E c \in Calls :
           \E o \in GetPrincipalPolicies(DB, c[1], c[2]) :
               Apply("GetPrincipalPolicies", o, Denies(DB, c[1], PolicyActionRead, POLICIES_PPATH))

DoCreateToken ==
    /\ last = NoCall
    /\ \E c \in Calls, name \in ColNames, id \in RecIds, fld \in {Fn, Sl},
          fmt \in {Plain, Masked} :
           \E o \in CreateToken(DB, c[1], name, id, fld, fmt, c[2]) :
               Apply("CreateToken", o,
                     Denies(DB, c[1], PolicyActionRead, FieldPath(name, id, fld, fmt)))

DoDeleteToken ==
    /\ last = NoCall
    /\ \E t \in TokIds :
           \E o \in DeleteToken(DB, t) :
               Apply("DeleteToken", o, FALSE)

DoGetTokenValue ==
    /\ last = NoCall
    /\ \E c \in Calls, t \in TokIds :
           \E o \in GetTokenValue(DB, c[1], t, c[2]) :
               Apply("GetTokenValue", o, TokenDenied(DB, c[1], t))

DoCreateSubject ==
    /\ last = NoCall
    /\ \E c \in Calls, sub \in SubjectInputs :
           \E o \in CreateSubject(DB, c[1], sub, c[2]) :
               Apply("CreateSubject", o, Denies(DB, c[1], PolicyActionWrite, SUBJECTS_PPATH))

DoGetSubject ==
    /\ last = NoCall
    /\ \E c \in Calls, id \in SubjectIds :
           \E o \in GetSubject(DB, c[1], id, c[2]) :
               Apply("GetSubject", o, Denies(DB, c[1], PolicyActionRead, SubjectPath(id)))

DoDeleteSubject ==
    /\ last = NoCall
    /\ \E c \in Calls, id \in SubjectIds :
           \E o \in DeleteSubject(DB, c[1], id, c[2]) :
               Apply("DeleteSubject", o, Denies(DB, c[1], PolicyActionWrite, SubjectPath(id)))

\* the pending reply reaches the caller
Return ==
    /\ last # NoCall
    /\ last' = NoCall
    /\ UNCHANGED <<collections, records, principals, policies, tokens, subjects, minted>>

\* the data path: collections, records and tokens
Next ==
    \/ DoGetCollection
    \/ DoGetCollections
    \/ DoCreateCollection
    \/ DoDeleteCollection
    \/ DoCreateRecords
    \/ DoGetRecords
    \/ DoGetRecordsFilter
    \/ DoUpdateRecord
    \/ DoDeleteRecord
    \/ DoCreateToken
    \/ DoDeleteToken
    \/ DoGetTokenValue
    \/ Return

Spec == Init /\ [][Next]_vars

\* the administration: principals, policies and subjects
AdminNext ==
    \/ DoGetPrincipal
    \/ DoCreatePrincipal
    \/ DoDeletePrincipal
    \/ DoLogin
    \/ DoCreatePolicy
    \/ DoGetPolicy
    \/ DoDeletePolicy
    \/ DoGetPrincipalPolicies
    \/ DoCreateSubject
    \/ DoGetSubject
    \/ DoDeleteSubject
    \/ Return

SpecAdmin == Init /\ [][AdminNext]_vars

(***************************************************************************)
(* The policy engine on its own: the store holds any part of a pool of     *)
(* allow and deny policies, and ValidateAction is asked about requests of  *)
(* callers whose policy lists range over the pool and a dangling id.       *)
(***************************************************************************)
DenyReadCus == [Id |-> <<"d", "n", "y", "r">>, Effect |-> EffectDeny,
                Actions |-> <<PolicyActionRead>>,
                Resources |-> <<CollectionPath(ColCus) \o <<"*">>>>]
DenyWriteCus == [Id |-> <<"d", "n", "y", "w">>, Effect |-> EffectDeny,
                 Actions |-> <<PolicyActionWrite>>,
                 Resources |-> <<RecordsPath(ColCus)>>]

PolicyPool == {RootPolicy, CusPolicy, DenyReadCus, DenyWriteCus}
PolicyLists == UNION {[1..n -> {p.Id : p \in PolicyPool} \cup {PolGone}] : n \in 0..MaxPolicyList}
EvalActions == {PolicyActionRead, PolicyActionWrite}
EvalResources == {CollectionPath(ColCus), RecordsPath(ColCus),
                  CollectionPath(ColCcs), PRINCIPALS_PPATH}
EvalActor(ids) == [Username |-> <<"e", "v", "a">>, Policies |-> ids]

EvalInit ==
    /\ collections = InitDB.collections
    /\ records = InitDB.records
    /\ principals = InitDB.principals
    /\ policies \in {[id \in {p.Id : p \in S} |-> CHOOSE p \in S : p.Id = id] :
                        S \in SUBSET PolicyPool}
    /\ tokens = InitDB.tokens
    /\ subjects = InitDB.subjects
    /\ minted = InitDB.minted
    /\ last = NoCall

\* one call of ValidateAction; the reply keeps the request it answers
DoValidateAction ==
    /\ last = NoCall
    /\ \E ids \in PolicyLists, action \in EvalActions, resource \in EvalResources,
          fault \in Faults :
           LET v == ValidateAction(DB, EvalActor(ids), action, resource, fault)
           IN  last' = [op |-> "ValidateAction", kind |-> v.err.kind,
                        denied |-> ~v.allowed, actor |-> EvalActor(ids),
                        action |-> action, resource |-> resource]
    /\ UNCHANGED <<collections, records, principals, policies, tokens, subjects, minted>>

EvalNext ==
    \/ DoValidateAction
    \/ Return

SpecEval == EvalInit /\ [][EvalNext]_vars

(***************************************************************************)
(* Properties.                                                             *)
(***************************************************************************)
\* no reply is pending: the store is as a call finds it
Idle == last = NoCall

\* what the caller sees of a call: the error and the value of each outcome
Results(outs) == {[err |-> o.err, val |-> o.val] : o \in outs}

\* the format maps and the batches the properties range over
FieldFormats == FormatInputs \cup {[f \in {Ln} |-> Masked]}
Batches ==
    BatchInputs \cup {<<RecAl>>, <<RecZz, RecBob>>, <<RecAl, RecZz>>,
                      <<[f \in {Fn, Zz} |-> VBob]>>}

Mutating == {"CreateCollection", "DeleteCollection", "CreateRecords", "UpdateRecord",
             "DeleteRecord", "CreatePrincipal", "DeletePrincipal", "CreatePolicy",
             "DeletePolicy", "CreateToken", "CreateSubject", "DeleteSubject"}

\* P(op, denied, outs) holds of every call by actor of a policy-gated
\* operation on collections, records and tokens in store d: op is the
\* operation, denied tells that the policy engine denies the call's request,
\* outs are the outcomes of the call
DataGated(d, actor, fault, P(_, _, _)) ==
    /\ \A name \in ColNames :
          P("GetCollection", Denies(d, actor, PolicyActionRead, CollectionPath(name)),
            GetCollection(d, actor, name, fault))
    /\ P("GetCollections", Denies(d, actor, PolicyActionRead, COLLECTIONS_PPATH),
         GetCollections(d, actor, fault))
    /\ \A col \in CollectionInputs :
          P("CreateCollection", Denies(d, actor, PolicyActionWrite, COLLECTIONS_PPATH),
            CreateCollection(d, actor, col, fault))
    /\ \A name \in ColNames :
          P("DeleteCollection", Denies(d, actor, PolicyActionWrite, CollectionPath(name)),
            DeleteCollection(d, actor, name, fault))
    /\ \A name \in ColNames, recs \in Batches :
          P("CreateRecords", Denies(d, actor, PolicyActionWrite, RecordsPath(name)),
            CreateRecords(d, actor, name, recs, fault))
    /\ \A name \in ColNames, ids \in IdListInputs, fmts \in FieldFormats :
          P("GetRecords", GetRecordsDenied(d, actor, name, ids, fmts),
            GetRecords(d, actor, name, ids, fmts, fault))
    /\ \A name \in ColNames, fld \in FieldNames, v \in Values, fmts \in FieldFormats :
          P("GetRecordsFilter", CollectionDenied(d, actor, name),
            GetRecordsFilter(d, actor, name, fld, v, fmts, fault))
    /\ \A name \in ColNames, id \in RecIds, patch \in PatchInputs :
          P("UpdateRecord", Denies(d, actor, PolicyActionWrite, RecordsPath(name)),
            UpdateRecord(d, actor, name, id, patch, fault))
    /\ \A name \in ColNames, id \in RecIds :
          P("DeleteRecord", Denies(d, actor, PolicyActionWrite, RecordsPath(name)),
            DeleteRecord(d, actor, name, id, fault))
    /\ \A name \in ColNames, id \in RecIds, fld \in FieldNames, fmt \in FormatNames :
          P("CreateToken", Denies(d, actor, PolicyActionRead, FieldPath(name, id, fld, fmt)),
            CreateToken(d, actor, name, id, fld, fmt, fault))
    /\ \A t \in TokIds :
          P("GetTokenValue", TokenDenied(d, actor, t), GetTokenValue(d, actor, t, fault))

\* the same of the policy-gated operations on principals, policies and subjects
AdminGated(d, actor, fault, P(_, _, _)) ==
    /\ \A u \in Usernames :
          P("GetPrincipal", Denies(d, actor, PolicyActionRead, PrincipalPath(u)),
            GetPrincipal(d, actor, u, fault))
    /\ \A pr \in PrincipalInputs :
          P("CreatePrincipal", Denies(d, actor, PolicyActionWrite, PRINCIPALS_PPATH),
            CreatePrincipal(d, actor, pr, fault))
    /\ \A u \in Usernames :
          P("DeletePrincipal", Denies(d, actor, PolicyActionWrite, PrincipalPath(u)),
            DeletePrincipal(d, actor, u, fault))
    /\ \A pol \in PolicyInputs :
          P("CreatePolicy", Denies(d, actor, PolicyActionWrite, POLICIES_PPATH),
            CreatePolicy(d, actor, pol, fault))
    /\ \A id \in PolicyIds :
          P("GetPolicy", Denies(d, actor, PolicyActionRead, PolicyPath(id)),
            GetPolicy(d, actor, id, fault))
    /\ \A id \in PolicyIds :
          P("DeletePolicy", Denies(d, actor, PolicyActionWrite, PolicyPath(id)),
            DeletePolicy(d, actor, id, fault))
    /\ P("GetPrincipalPolicies", Denies(d, actor, PolicyActionRead, POLICIES_PPATH),
         GetPrincipalPolicies(d, actor, fault))
    /\ \A sub \in SubjectInputs :
          P("CreateSubject", Denies(d, actor, PolicyActionWrite, SUBJECTS_PPATH),
            CreateSubject(d, actor, sub, fault))
    /\ \A id \in SubjectIds :
          P("GetSubject", Denies(d, actor, PolicyActionRead, SubjectPath(id)),
            GetSubject(d, actor, id, fault))
    /\ \A id \in SubjectIds :
          P("DeleteSubject", Denies(d, actor, PolicyActionWrite, SubjectPath(id)),
            DeleteSubject(d, actor, id, fault))

EveryGated(d, actor, fault, P(_, _, _)) ==
    /\ DataGated(d, actor, fault, P)
    /\ AdminGated(d, actor, fault, P)

\* store d, and d after one principal, policy or subject was created in it
AdminStores(d) ==
    {d} \cup {o.db : o \in UNION ({CreatePrincipal(d, Root, pr, "none") : pr \in PrincipalInputs}
                            \cup {CreatePolicy(d, Root, pol, "none") : pol \in PolicyInputs}
                            \cup {CreateSubject(d, Root, sub, "none") : sub \in SubjectInputs})}

\* C1: every policy-gated operation, whatever its arguments, returns
\* Forbidden when the policy engine denies the caller's request (for
\* GetRecords with no identifiers or no formats: when the caller may read
\* nothing under the collection), never a success and never another error.
C1_DeniedIsForbidden ==
    Idle => \A a \in Actors :
        EveryGated(DB, a, "none",
            LAMBDA op, den, outs : den => \A o \in outs : o.err.kind = "Forbidden")

\* C2: a denied call of a policy-gated mutating operation leaves the store
\* (collections, records, principals, policies, tokens, subjects) as it was.
C2_DeniedWritesNothing ==
    Idle => \A a \in Actors :
        /\ DataGated(DB, a, "none",
              LAMBDA op, den, outs : (op \in Mutating /\ den) => \A o \in outs : o.db = DB)
        /\ \A d \in AdminStores(DB) :
              AdminGated(d, a, "none",
                  LAMBDA op, den, outs : (op \in Mutating /\ den) => \A o \in outs : o.db = d)

\* a denied DeleteRecord has replied while records are stored
C2_Witness ==
    /\ last.op = "DeleteRecord"
    /\ last.denied
    /\ last.kind = "Forbidden"
    /\ DOMAIN records # {}

\* the stores that differ from d in one stored value of one record of name
ValueVariants(d, name) ==
    UNION {UNION {{[d EXCEPT !.records[k][f] = Encrypt(v)] : v \in Values} :
                     f \in DOMAIN d.records[k]} :
              k \in {x \in DOMAIN d.records : x[1] = name}}

\* C3: a caller who may read nothing under a collection gets the same
\* results from GetRecords, GetRecordsFilter, CreateToken and GetTokenValue
\* in two stores that differ only in the values held in the records of that
\* collection.
C3_ValuesConfidential ==
    Idle => \A a \in Actors, name \in ColNames :
        CollectionDenied(DB, a, name) =>
            \A d2 \in ValueVariants(DB, name) :
                /\ \A ids \in IdListInputs, fmts \in FieldFormats :
                      Results(GetRecords(DB, a, name, ids, fmts, "none"))
                          = Results(GetRecords(d2, a, name, ids, fmts, "none"))
                /\ \A fld \in FieldNames, v \in Values, fmts \in FieldFormats :
                      Results(GetRecordsFilter(DB, a, name, fld, v, fmts, "none"))
                          = Results(GetRecordsFilter(d2, a, name, fld, v, fmts, "none"))
                /\ \A id \in RecIds, fld \in FieldNames, fmt \in FormatNames :
                      Results(CreateToken(DB, a, name, id, fld, fmt, "none"))
                          = Results(CreateToken(d2, a, name, id, fld, fmt, "none"))
                /\ \A t \in TokIds :
                      Results(GetTokenValue(DB, a, t, "none"))
                          = Results(GetTokenValue(d2, a, t, "none"))

\* C4: a caller whose request is denied gets the same result whether the
\* target (collection, record, token, principal, policy, subject) is stored
\* or not: the result in the store equals the result in the store without
\* the target.
C4_DeniedHidesExistence ==
    Idle => \A a \in Actors :
        /\ \A name \in ColNames :
              LET d2 == DbDeleteCollection(DB, name).db
              IN  /\ (/\ Denies(DB, a, PolicyActionRead, CollectionPath(name))
                      /\ Denies(d2, a, PolicyActionRead, CollectionPath(name)))
                         => Results(GetCollection(DB, a, name, "none"))
                                = Results(GetCollection(d2, a, name, "none"))
                  /\ (CollectionDenied(DB, a, name) /\ CollectionDenied(d2, a, name))
                         => \A fld \in FieldNames, v \in Values, fmts \in FieldFormats :
                               Results(GetRecordsFilter(DB, a, name, fld, v, fmts, "none"))
                                   = Results(GetRecordsFilter(d2, a, name, fld, v, fmts, "none"))
        /\ \A name \in ColNames, ids \in IdListInputs, fmts \in FieldFormats :
              \A i \in 1..Len(ids) :
                  LET d2 == DbDeleteRecord(DB, name, ids[i]).db
                  IN  (/\ GetRecordsDenied(DB, a, name, ids, fmts)
                       /\ GetRecordsDenied(d2, a, name, ids, fmts))
                          => Results(GetRecords(DB, a, name, ids, fmts, "none"))
                                 = Results(GetRecords(d2, a, name, ids, fmts, "none"))
        /\ \A t \in TokIds :
              LET d2 == DbDeleteToken(DB, t).db
              IN  (TokenDenied(DB, a, t) /\ TokenDenied(d2, a, t))
                      => Results(GetTokenValue(DB, a, t, "none"))
                             = Results(GetTokenValue(d2, a, t, "none"))
        /\ \A u \in Usernames :
              LET d2 == DbDeletePrincipal(DB, u).db
              IN  (/\ Denies(DB, a, PolicyActionRead, PrincipalPath(u))
                   /\ Denies(d2, a, PolicyActionRead, PrincipalPath(u)))
                      => Results(GetPrincipal(DB, a, u, "none"))
                             = Results(GetPrincipal(d2, a, u, "none"))
        /\ \A id \in PolicyIds :
              LET d2 == DbDeletePolicy(DB, id).db
              IN  (/\ Denies(DB, a, PolicyActionRead, PolicyPath(id))
                   /\ Denies(d2, a, PolicyActionRead, PolicyPath(id)))
                      => Results(GetPolicy(DB, a, id, "none"))
                             = Results(GetPolicy(d2, a, id, "none"))
        /\ \A id \in SubjectIds :
              LET d2 == DbDeleteSubject(DB, id).db
              IN  (/\ Denies(DB, a, PolicyActionRead, SubjectPath(id))
                   /\ Denies(d2, a, PolicyActionRead, SubjectPath(id)))
                      => Results(GetSubject(DB, a, id, "none"))
                             = Results(GetSubject(d2, a, id, "none"))

\* policy p matches the request and has effect deny
DenyMatches(p, action, resource) ==
    PolicyMatches(p, action, resource) /\ p.Effect = EffectDeny

\* policy p matches the request and has effect allow
AllowMatches(p, action, resource) ==
    PolicyMatches(p, action, resource) /\ p.Effect = EffectAllow

\* C5: explicit deny wins.  For every request and every policy list of the
\* caller, in any order, if one of the caller's stored policies matches the
\* request on resource pattern and action and has effect deny, ValidateAction
\* decides deny, without error, however many allow policies match too.
C5_DenyWins ==
    Idle => \A ids \in PolicyLists, action \in EvalActions, resource \in EvalResources :
        LET pols == DbGetPolicies(DB, ids, "none").pols
        IN  (\E i \in 1..Len(pols) : DenyMatches(pols[i], action, resource))
                => ValidateAction(DB, EvalActor(ids), action, resource, "none")
                       = [err |-> NoErr, allowed |-> FALSE]

\* ValidateAction has decided deny on a request that an allow policy of the
\* caller matches first and a deny policy of the caller matches after it
C5_Witness ==
    /\ last.op = "ValidateAction"
    /\ last.kind = "ok"
    /\ last.denied
    /\ LET pols == DbGetPolicies(DB, last.actor.Policies, "none").pols
       IN  /\ Len(pols) = 2
           /\ AllowMatches(pols[1], last.action, last.resource)
           /\ DenyMatches(pols[2], last.action, last.resource)

\* C6: default deny.  For a caller with an empty policy list, or whose
\* policy ids are all absent from the store, ValidateAction decides deny
\* without error on every request, and no policy-gated operation the caller
\* invokes succeeds.
C6_DefaultDeny ==
    Idle => \A a \in {Nobody, Ghost} :
        /\ \A action \in EvalActions, resource \in EvalResources :
              ValidateAction(DB, a, action, resource, "none")
                  = [err |-> NoErr, allowed |-> FALSE]
        /\ EveryGated(DB, a, "none",
              LAMBDA op, den, outs : \A o \in outs : o.err # NoErr)

\* C7: when the fetch of the caller's policies fails, ValidateAction returns
\* that error, and every policy-gated operation returns that same error to
\* its caller and writes nothing to the store.
C7_FetchFailureSurfaces ==
    Idle => \A a \in Actors :
        /\ \A action \in EvalActions, resource \in EvalResources :
              ValidateAction(DB, a, action, resource, "policies").err = StorageError
        /\ EveryGated(DB, a, "policies",
              LAMBDA op, den, outs : \A o \in outs : o.err = StorageError /\ o.db = DB)

\* every request GetRecords raises for the identifiers and formats is allowed
ReadAllowed(d, actor, name, recordIDs, returnFormats) ==
    \A i \in 1..Len(recordIDs), f \in DOMAIN returnFormats :
        ~Denies(d, actor, PolicyActionRead,
                FieldPath(name, recordIDs[i], f, returnFormats[f]))

Undeclared(d, name, recs) ==
    /\ name \in DOMAIN d.collections
    /\ \E i \in 1..Len(recs) :
          \E f \in DOMAIN recs[i] : f \notin DOMAIN d.collections[name].Fields

\* C9: CreateRecords rejects undeclared fields atomically.  When a record
\* of the batch has a field that the collection does not declare, no record
\* of the batch is stored, whoever calls and whatever precedes the bad
\* record, and a caller allowed to write the collection's records gets a
\* ValueError.
C9_UndeclaredFieldRejected ==
    Idle => \A a \in Actors, name \in ColNames, recs \in Batches :
        Undeclared(DB, name, recs) =>
            /\ \A fault \in Faults :
                  \A o \in CreateRecords(DB, a, name, recs, fault) :
                      o.db = DB /\ o.err # NoErr
            /\ ~Denies(DB, a, PolicyActionWrite, RecordsPath(name)) =>
                  \A o \in CreateRecords(DB, a, name, recs, "none") : o.err = ValueError

\* an allowed CreateRecords on the collection with fields fn and ln, both
\* of a known type, has replied ValueError and no record is stored
C9_Witness ==
    /\ last.op = "CreateRecords"
    /\ last.kind = "ValueError"
    /\ ~last.denied
    /\ ColCus \in DOMAIN collections
    /\ collections[ColCus].Fields = SchemaFull
    /\ DOMAIN records = {}

\* C10: schema conformance.  In every state reached by CreateCollection,
\* DeleteCollection, CreateRecords, UpdateRecord and DeleteRecord calls,
\* every field name of a stored record is declared in the schema of the
\* collection that owns the record.
C10_SchemaConformance ==
    \A k \in DOMAIN records :
        k[1] \in DOMAIN collections =>
            DOMAIN records[k] \subseteq DOMAIN collections[k[1]].Fields

\* the identifiers of the stored records of name whose field holds value
Holding(d, name, field, value) ==
    {k[2] : k \in {x \in DOMAIN d.records :
                      /\ x[1] = name
                      /\ field \in DOMAIN d.records[x]
                      /\ d.records[x][field] = value}}

\* C11: encryption at rest.  In every reachable state every stored field
\* value is Priv.Encrypt of a plaintext a caller of CreateRecords or
\* UpdateRecord gave, never a plaintext; and the index lookup of
\* GetRecordsFilter is made with Priv.Encrypt of the value searched for: on
\* an indexed field it finds the records that hold the ciphertext of the
\* value, and no record for holding the plaintext.
C11_EncryptedAtRest ==
    /\ \A k \in DOMAIN records :
          \A f \in DOMAIN records[k] :
              /\ records[k][f] \in {Encrypt(v) : v \in Values}
              /\ records[k][f] \notin Values
    /\ Idle => \A name \in DOMAIN collections, fld \in FieldNames, v \in Values :
          (/\ fld \in DOMAIN collections[name].Fields
           /\ collections[name].Fields[fld].IsIndexed) =>
              \A o \in GetRecordsFilter(DB, Root, name, fld, v, EmptyMap, "none") :
                  IF Holding(DB, name, fld, Encrypt(v)) = {}
                  THEN o.err = ValueError
                  ELSE o.err = NoErr /\ DOMAIN o.val = Holding(DB, name, fld, Encrypt(v))

\* an UpdateRecord has succeeded and a record holds the ciphertext of the
\* value of its patch
C11_Witness ==
    /\ last.op = "UpdateRecord"
    /\ last.kind = "ok"
    /\ \E k \in DOMAIN records :
          Fn \in DOMAIN records[k] /\ records[k][Fn] = Encrypt(VAl)

\* field is declared on the stored collection name, with an index
Indexed(d, name, field) ==
    /\ name \in DOMAIN d.collections
    /\ field \in DOMAIN d.collections[name].Fields
    /\ d.collections[name].Fields[field].IsIndexed

\* C12: indexed lookup.  For every indexed field f and value v,
\* GetRecordsFilter(f, v, {f: plain}) by a caller allowed to read returns
\* exactly the records of the collection whose stored f is v, each with f
\* read as v: at least one when such a record is stored, however it came to
\* hold v (created with it, or changed to it by UpdateRecord), and no record
\* data when none holds v.
C12_IndexedLookup ==
    Idle => \A name \in ColNames, fld \in FieldNames, v \in Values, a \in Actors :
        LET hits == Holding(DB, name, fld, Encrypt(v))
            fmts == [f \in {fld} |-> Plain]
        IN  (/\ Indexed(DB, name, fld)
             /\ \A id \in RecIds \cup hits :
                   ~Denies(DB, a, PolicyActionRead, FieldPath(name, id, fld, Plain)))
                => \A o \in GetRecordsFilter(DB, a, name, fld, v, fmts, "none") :
                       IF hits = {}
                       THEN o.err # NoErr /\ o.val = EmptyMap
                       ELSE /\ o.err = NoErr
                            /\ DOMAIN o.val = hits
                            /\ \A id \in hits : o.val[id] = [f \in {fld} |-> v]

\* a GetRecordsFilter has succeeded while every stored record holds the
\* value Al in fn, one of them through an UpdateRecord (it was created with
\* fn alone, which the batches create as Bob)
C12_Witness ==
    /\ last.op = "GetRecordsFilter"
    /\ last.kind = "ok"
    /\ \A k \in DOMAIN records : Fn \in DOMAIN records[k] /\ records[k][Fn] = Encrypt(VAl)
    /\ \E k \in DOMAIN records : DOMAIN records[k] = {Fn}

\* C13: GetRecordsFilter on a field that the collection declares without an
\* index returns IndexError and no record data, whatever the value searched
\* for, whether or not a record holds it, whoever calls, and changes nothing.
C13_NotIndexedIsIndexError ==
    Idle => \A name \in ColNames, fld \in FieldNames, v \in Values :
        (/\ name \in DOMAIN collections
         /\ fld \in DOMAIN collections[name].Fields
         /\ ~collections[name].Fields[fld].IsIndexed)
            => \A a \in Actors, fmts \in FieldFormats, fault \in Faults :
                   \A o \in GetRecordsFilter(DB, a, name, fld, v, fmts, fault) :
                       o.err = ErrIndexError /\ o.val = EmptyMap /\ o.db = DB

\* a GetRecordsFilter has replied IndexError on the collection whose fn is
\* indexed and whose ln is not, while a record holds a value in ln
C13_Witness ==
    /\ last.op = "GetRecordsFilter"
    /\ last.kind = "IndexError"
    /\ ColCus \in DOMAIN collections
    /\ collections[ColCus].Fields = SchemaFull
    /\ \E k \in DOMAIN records : k[1] = ColCus /\ Ln \in DOMAIN records[k]

\* the principals CreatePrincipal is called with: those of the state machine,
\* and the first of them again under another password and other policies
PrincipalVariants ==
    PrincipalInputs \cup
        {[Id |-> EmptyStr, Username |-> UserBob, Password |-> <<"p", "w", "2">>,
          Policies |-> <<PolRoot>>]}

\* C14: access-key uniqueness.  The storage holds one principal per
\* username; a CreatePrincipal with the username of a stored principal
\* leaves the store, and so the stored principal's hash, policies and id,
\* as it was and fails, with Conflict for a caller allowed to create
\* principals.
C14_PrincipalUnique ==
    /\ \A u \in DOMAIN principals : principals[u].Username = u
    /\ Idle => \A a \in Actors, pr \in PrincipalVariants :
          pr.Username \in DOMAIN principals =>
              /\ \A fault \in Faults :
                    \A o \in CreatePrincipal(DB, a, pr, fault) :
                        o.db = DB /\ o.err # NoErr
              /\ ~Denies(DB, a, PolicyActionWrite, PRINCIPALS_PPATH) =>
                    \A o \in CreatePrincipal(DB, a, pr, "none") : o.err = ErrConflict

\* a CreatePrincipal has replied Conflict and the principal is stored
C14_Witness ==
    /\ last.op = "CreatePrincipal"
    /\ last.kind = "Conflict"
    /\ UserBob \in DOMAIN principals
    /\ principals[UserBob].Password = GenerateFromPassword(PwGood)

\* the passwords Login and CreatePrincipal are called with
Passwords == {PwGood, <<"p", "w", "2">>, <<"b", "a", "d">>}

\* the principal value carries neither a password nor the hash of one
NoSecret(p) ==
    /\ p.Password \notin Passwords
    /\ p.Password \notin {GenerateFromPassword(pw) : pw \in Passwords}

\* C15: no operation returns secret material.  The Principal returned by a
\* successful GetPrincipal or Login, and the principal a successful
\* CreatePrincipal leaves with its caller, carries neither the access-secret
\* nor its stored hash.
C15_NoSecretReturned ==
    Idle =>
        /\ \A a \in Actors, u \in Usernames :
              \A o \in GetPrincipal(DB, a, u, "none") : o.err = NoErr => NoSecret(o.val)
        /\ \A u \in Usernames, pw \in Passwords :
              \A o \in Login(DB, u, pw) : o.err = NoErr => NoSecret(o.val)
        /\ \A a \in Actors, pr \in PrincipalVariants :
              \A o \in CreatePrincipal(DB, a, pr, "none") : o.err = NoErr => NoSecret(o.val)

\* C16: Login gives no oracle.  Every failing Login returns the same
\* Forbidden error and no principal, whether the username is unknown, the
\* password is wrong or a credential is empty; Login succeeds only when the
\* principal is stored and the password matches the stored hash.
C16_LoginNoOracle ==
    Idle => \A u \in Usernames \cup {EmptyStr}, pw \in Passwords \cup {EmptyStr} :
        \A o \in Login(DB, u, pw) :
            IF o.err = NoErr
            THEN /\ u \in DOMAIN principals
                 /\ CompareHashAndPassword(principals[u].Password, pw)
            ELSE o.err = ForbiddenError(EmptyStr) /\ o.val = NoPrincipal

\* the stores in which a token made in d may be resolved: the store just
\* after CreateToken, and the stores after one later successful UpdateRecord
\* of a record of the collection
Later(d, name) ==
    {d} \cup {u.db : u \in {x \in UNION {UpdateRecord(d, Root, name, id, patch, "none") :
                                         id \in RecIds, patch \in PatchInputs} :
                            x.err = NoErr}}

\* C17: token resolution equals direct read.  For every token that
\* CreateToken(name, id, fld, fmt) makes, in the store it leaves and after a
\* later UpdateRecord, for every principal whose GetRecords(name, <<id>>,
\* {fld: fmt}) succeeds, GetTokenValue of the token succeeds with exactly
\* the record {fld: value} that this GetRecords returns for id.
C17_TokenEqualsDirectRead ==
    Idle => \A a \in Actors, name \in ColNames, id \in RecIds, fld \in FieldNames,
               fmt \in {Plain, Masked} :
        \A o \in CreateToken(DB, a, name, id, fld, fmt, "none") :
            o.err = NoErr =>
                \A d \in Later(o.db, name), b \in Actors :
                    LET direct == GetRecords(d, b, name, <<id>>,
                                             [f \in {fld} |-> fmt], "none")
                    IN  (\A g \in direct : g.err = NoErr /\ id \in DOMAIN g.val) =>
                            Results(GetTokenValue(d, b, o.val, "none"))
                                = {[err |-> NoErr, val |-> g.val[id]] : g \in direct}

\* C18: token lifecycle.  CreateToken stores a token only when its own
\* GetRecords of the record succeeds (the record exists and the creator is
\* authorized), and stores nothing otherwise; and once DeleteRecord has
\* removed the record, GetTokenValue of the token by a principal authorized
\* to read the field fails with NotFound, never with another error or a
\* value.
C18_TokenLifecycle ==
    Idle => \A a \in Actors, name \in ColNames, id \in RecIds, fld \in FieldNames,
               fmt \in {Plain, Masked} :
        \A o \in CreateToken(DB, a, name, id, fld, fmt, "none") :
            IF o.err # NoErr THEN o.db = DB
            ELSE
                /\ o.val \in DOMAIN o.db.tokens
                /\ <<name, id>> \in DOMAIN records
                /\ \E g \in GetRecords(DB, a, name, <<id>>, [f \in {fld} |-> fmt], "none") :
                       g.err = NoErr /\ id \in DOMAIN g.val
                /\ \A del \in DeleteRecord(o.db, Root, name, id, "none") :
                       del.err = NoErr =>
                           \A b \in Actors :
                               ~Denies(del.db, b, PolicyActionRead,
                                       FieldPath(name, id, fld, fmt)) =>
                                   \A r \in GetTokenValue(del.db, b, o.val, "none") :
                                       r.err = ErrNotFound /\ r.val = EmptyMap

\* the stores a later change of the policies leaves: one stored policy
\* deleted, or a deny policy on reading the collection cus created
PolicyChanges(d) ==
    {d} \cup {x.db : x \in {y \in UNION ({DeletePolicy(d, Root, pid, "none") :
                                              pid \in {PolRoot, PolCus}}
                                         \cup {CreatePolicy(d, Root, DenyReadCus, "none")}) :
                            y.err = NoErr}}

\* the principals that resolve a token in d: the callers, and one that holds
\* the allow policy of Limited together with each policy created since
Resolvers(d) ==
    Actors \cup {[Username |-> Limited.Username, Policies |-> <<PolCus, pid>>] :
                    pid \in DOMAIN d.policies \ {PolRoot, PolCus}}

\* C19: token resolution uses the live policies.  For every token that
\* CreateToken makes, after a policy was deleted or a deny policy created,
\* GetTokenValue by a principal whom the policies now stored deny the read
\* of the field in that format returns Forbidden; and GetTokenValue returns
\* a value only to a principal whose GetRecords of that field succeeds.
C19_TokenUsesLivePolicies ==
    Idle => \A a \in Actors, name \in ColNames, id \in RecIds, fld \in FieldNames,
               fmt \in {Plain, Masked} :
        \A o \in CreateToken(DB, a, name, id, fld, fmt, "none") :
            o.err = NoErr =>
                \A d \in PolicyChanges(o.db) : \A b \in Resolvers(d) :
                    \A r \in GetTokenValue(d, b, o.val, "none") :
                        /\ Denies(d, b, PolicyActionRead, FieldPath(name, id, fld, fmt)) =>
                               r.err = ForbiddenError(FieldPath(name, id, fld, fmt))
                        /\ r.err = NoErr =>
                               \E g \in GetRecords(d, b, name, <<id>>,
                                                   [f \in {fld} |-> fmt], "none") :
                                   g.err = NoErr /\ g.val[id] = r.val

\* what reading one field of one record in plain format returns
ReadPlain(d, name, id, f) ==
    Results(GetRecords(d, Root, name, <<id>>, [x \in {f} |-> Plain], "none"))

\* C20: UpdateRecord is a per-field patch.  After a successful
\* UpdateRecord(name, id, patch), reading record id in plain format returns
\* the patch value for every field of the patch and what it returned before
\* for every other field of the record; every other record and every
\* collection, and the rest of the store, are as before.
C20_UpdateIsPatch ==
    Idle => \A a \in Actors, name \in ColNames, id \in RecIds, patch \in PatchInputs :
        \A u \in UpdateRecord(DB, a, name, id, patch, "none") :
            u.err = NoErr =>
                /\ \A f \in DOMAIN patch :
                       ReadPlain(u.db, name, id, f)
                           = {[err |-> NoErr, val |-> [i \in {id} |-> [x \in {f} |-> patch[f]]]]}
                /\ \A f \in DOMAIN records[<<name, id>>] \ DOMAIN patch :
                       ReadPlain(u.db, name, id, f) = ReadPlain(DB, name, id, f)
                /\ DOMAIN u.db.records = DOMAIN records
                /\ \A k \in DOMAIN records \ {<<name, id>>} : u.db.records[k] = records[k]
                /\ [u.db EXCEPT !.records = records] = DB

\* every GetRecords of id alone, by a caller the policies let read what it
\* asks for, returns NotFound
RecordGone(d, name, id) ==
    \A b \in Actors, fmts \in FieldFormats :
        ~GetRecordsDenied(d, b, name, <<id>>, fmts) =>
            \A g \in GetRecords(d, b, name, <<id>>, fmts, "none") :
                g.err = ErrNotFound /\ g.val = EmptyMap

\* every GetPolicy of policyId by a caller the policies let read it returns
\* NotFound
PolicyGone(d, policyId) ==
    \A b \in Actors :
        ~Denies(d, b, PolicyActionRead, PolicyPath(policyId)) =>
            \A g \in GetPolicy(d, b, policyId, "none") :
                g.err = ErrNotFound /\ g.val = NoPolicy

\* C21: delete then read.  A successful DeleteRecord(name, id) leaves a
\* store without the record, and in every reachable state a record
\* identifier that is not stored (deleted and not created again) reads as
\* NotFound through GetRecords of that identifier alone; a successful
\* DeletePolicy(policyId) leaves a store in which GetPolicy(policyId)
\* returns NotFound.  Authorized readers are meant: a denied one gets
\* Forbidden.
C21_DeleteThenRead ==
    Idle =>
        /\ \A name \in ColNames, id \in RecIds :
              /\ <<name, id>> \notin DOMAIN records => RecordGone(DB, name, id)
              /\ \A a \in Actors : \A del \in DeleteRecord(DB, a, name, id, "none") :
                     del.err = NoErr =>
                         /\ <<name, id>> \in DOMAIN records
                         /\ RecordGone(del.db, name, id)
        /\ \A d \in AdminStores(DB) : \A pid \in DOMAIN d.policies, a \in Actors :
              \A del \in DeletePolicy(d, a, pid, "none") :
                  del.err = NoErr => PolicyGone(del.db, pid)

\* a DeleteRecord has succeeded on a collection that is still stored
C21_Witness ==
    /\ last.op = "DeleteRecord"
    /\ last.kind = "ok"
    /\ ColCus \in DOMAIN collections
    /\ \E id \in RecIds : <<ColCus, id>> \notin DOMAIN records /\ RecId(minted) = id

\* the valid policies of the inputs, submitted under an identifier the caller
\* chose
ChosenPolicies ==
    {[p EXCEPT !.Id = <<"m", "i", "n", "e">>] : p \in {q \in PolicyInputs : ValidatePolicy(q)}}

\* C22: a policy created through CreatePolicy with a caller-chosen id is
\* stored under that id: GetPolicy of the chosen id by an authorized
\* principal returns the policy with the effect, actions and resources
\* submitted.
C22_ChosenPolicyId ==
    Idle => \A pol \in ChosenPolicies :
        \A o \in CreatePolicy(DB, Root, pol, "none") :
            o.err = NoErr =>
                \A g \in GetPolicy(o.db, Root, pol.Id, "none") :
                    /\ g.err = NoErr
                    /\ g.val.Effect = pol.Effect
                    /\ g.val.Actions = pol.Actions
                    /\ g.val.Resources = pol.Resources

\* the policies of the inputs, and one with an empty (not nil) resource list
PolicyVariants ==
    PolicyInputs \cup {[Id |-> EmptyStr, Effect |-> EffectAllow,
                        Actions |-> <<PolicyActionRead>>, Resources |-> <<>>]}

\* a resource list that is not empty and whose every pattern begins with "/"
WellFormed(Resources) ==
    /\ Resources # <<>>
    /\ \A i \in 1..Len(Resources) : HasPrefix(Resources[i], Slash)

\* C23: CreatePolicy rejects with ValueError, and stores nothing, a policy
\* that has a resource not beginning with "/"; and every policy that a
\* successful CreatePolicy stores has a resource list that is not empty and
\* whose every pattern begins with "/".
C23_ResourcesBeginWithSlash ==
    Idle => \A a \in Actors, pol \in PolicyVariants :
        \A o \in CreatePolicy(DB, a, pol, "none") :
            /\ (\E i \in 1..Len(pol.Resources) : ~HasPrefix(pol.Resources[i], Slash)) =>
                   o.err = ValueError /\ o.db = DB
            /\ o.err = NoErr =>
                   \A pid \in DOMAIN o.db.policies \ DOMAIN policies :
                       WellFormed(o.db.policies[pid].Resources)

\* C24: GetRecords never returns a partial result.  For a caller allowed to
\* read what it asks for, GetRecords returns NotFound when at least one of
\* the requested identifiers is not stored in the collection, and a
\* successful result holds an entry for every requested identifier.
C24_NoPartialResult ==
    Idle => \A name \in ColNames, ids \in IdListInputs, a \in Actors, fmts \in FieldFormats :
        \A g \in GetRecords(DB, a, name, ids, fmts, "none") :
            /\ g.err = NoErr => DOMAIN g.val = {ids[i] : i \in 1..Len(ids)}
            /\ (/\ ids # <<>>
                /\ ~GetRecordsDenied(DB, a, name, ids, fmts)
                /\ \E i \in 1..Len(ids) : <<name, ids[i]>> \notin DOMAIN records) =>
                   g.err = ErrNotFound

\* C25: DeleteCollection is non-cascading and guarded.  DeleteCollection of
\* a collection that still holds a record returns an error and leaves the
\* collection and its records stored; and in every reachable state the
\* collection of every stored record is stored.
C25_DeleteCollectionGuarded ==
    /\ \A k \in DOMAIN records : k[1] \in DOMAIN collections
    /\ Idle => \A a \in Actors, name \in DOMAIN collections :
          (\E k \in DOMAIN records : k[1] = name) =>
              \A o \in DeleteCollection(DB, a, name, "none") :
                  o.err # NoErr /\ o.db = DB

\* C26: collaborator errors pass through unchanged.  When the storage call
\* of Login, GetCollection, DeleteCollection or DeleteRecord fails, the
\* operation returns the error of that call; and when Priv.Encrypt fails
\* inside CreateRecords, UpdateRecord or GetRecordsFilter, the operation
\* returns the error of Encrypt and leaves the store as it was.
C26_CollaboratorErrorsSurface ==
    Idle =>
        /\ \A u \in Usernames, pw \in Passwords :
              DbGetPrincipal(DB, u).err # NoErr =>
                  \A o \in Login(DB, u, pw) : o.err = DbGetPrincipal(DB, u).err
        /\ \A name \in ColNames :
              /\ DbGetCollection(DB, name).err # NoErr =>
                     \A o \in GetCollection(DB, Root, name, "none") :
                         o.err = DbGetCollection(DB, name).err
              /\ DbDeleteCollection(DB, name).err # NoErr =>
                     \A o \in DeleteCollection(DB, Root, name, "none") :
                         o.err = DbDeleteCollection(DB, name).err
              /\ \A id \in RecIds :
                     DbDeleteRecord(DB, name, id).err # NoErr =>
                         \A o \in DeleteRecord(DB, Root, name, id, "none") :
                             o.err = DbDeleteRecord(DB, name, id).err
        /\ \A name \in DOMAIN collections :
              /\ \A recs \in BatchInputs :
                     (\A i \in 1..Len(recs), f \in FieldNames :
                          f \in DOMAIN recs[i] =>
                              FieldError(collections[name], f, recs[i][f]) = NoErr) =>
                         \A o \in CreateRecords(DB, Root, name, recs, "encrypt") :
                             o.err = CryptoError /\ o.db = DB
              /\ \A id \in RecIds, patch \in PatchInputs :
                     \A o \in UpdateRecord(DB, Root, name, id, patch, "encrypt") :
                         o.err = CryptoError /\ o.db = DB
              /\ \A fld \in FieldNames, v \in Values, fmts \in FieldFormats :
                     \A o \in GetRecordsFilter(DB, Root, name, fld, v, fmts, "encrypt") :
                         o.err = CryptoError /\ o.db = DB

\* a principal whose one policy, created by Root in d, allows read and write
\* on exactly the resource given: the stores where the policy is stored
Holder == [Username |-> <<"h", "l", "d">>,
           Policies |-> <<GenerateId(<<"p", "o", "l">>, minted + 1)>>]
Granted(resource) ==
    {o.db : o \in {x \in CreatePolicy(DB, Root,
                        [Id |-> EmptyStr, Effect |-> EffectAllow,
                         Actions |-> <<PolicyActionRead, PolicyActionWrite>>,
                         Resources |-> <<resource>>], "none") : x.err = NoErr}}

\* no outcome is Forbidden
Admitted(outs) == \A o \in outs : o.err.kind # "Forbidden"

\* C27: resource paths follow the documented grammar.  A principal whose
\* policy allows read and write on exactly /principals/{username} is
\* admitted to GetPrincipal(username) and DeletePrincipal(username), as one
\* with exactly /collections/{name}, /policies/{id} or /subjects/{id} is
\* admitted to the Get and Delete of that collection, policy or subject.
C27_PathGrammar ==
    Idle =>
        /\ \A u \in Usernames : \A d \in Granted(PRINCIPALS_PPATH \o Slash \o u) :
              /\ Admitted(GetPrincipal(d, Holder, u, "none"))
              /\ Admitted(DeletePrincipal(d, Holder, u, "none"))
        /\ \A name \in ColNames : \A d \in Granted(COLLECTIONS_PPATH \o Slash \o name) :
              /\ Admitted(GetCollection(d, Holder, name, "none"))
              /\ Admitted(DeleteCollection(d, Holder, name, "none"))
        /\ \A pid \in PolicyIds : \A d \in Granted(POLICIES_PPATH \o Slash \o pid) :
              /\ Admitted(GetPolicy(d, Holder, pid, "none"))
              /\ Admitted(DeletePolicy(d, Holder, pid, "none"))
        /\ \A sid \in SubjectIds : \A d \in Granted(SUBJECTS_PPATH \o Slash \o sid) :
              /\ Admitted(GetSubject(d, Holder, sid, "none"))
              /\ Admitted(DeleteSubject(d, Holder, sid, "none"))

\* the stored policies of the caller other than policyId, in the caller's
\* order
Without(d, actor, policyId) ==
    LET Kept(id) == id # policyId /\ id \in DOMAIN d.policies
        kept == SelectSeq(actor.Policies, Kept)
    IN  [i \in 1..Len(kept) |-> d.policies[kept[i]]]

\* C28: policy deletion fails closed.  After a DeletePolicy has completed,
\* ValidateAction for a principal that references the deleted policy
\* returns a decision, not an error, and the decision is the one of the
\* principal's other policies; and a principal none of whose policies is
\* left succeeds in no policy-gated operation started afterwards.
C28_DeletedPolicyFailsClosed ==
    Idle => \A a \in Actors, pid \in DOMAIN policies :
        \A del \in DeletePolicy(DB, Root, pid, "none") :
            del.err = NoErr =>
                /\ \A action \in EvalActions,
                      resource \in EvalResources
                                     \cup {FieldPath(ColCus, id, Fn, Plain) : id \in RecIds} :
                      ValidateAction(del.db, a, action, resource, "none")
                          = [err |-> NoErr,
                             allowed |-> EvaluateRequest(action, resource, Without(DB, a, pid))]
                /\ Without(DB, a, pid) = <<>> =>
                       EveryGated(del.db, a, "none",
                           LAMBDA op, den, outs : \A o \in outs : o.err # NoErr)

\* passwords and usernames outside the structural constraints of Principal
ShortPasswords == {EmptyStr, <<"p", "w">>}
ShortUsernames == {<<"b", "o">>}

\* C29: CreatePrincipal enforces the structural constraints on the caller's
\* input.  A principal submitted by an authorized caller with an empty
\* password, a password shorter than 3 characters or a username outside
\* 3..32 characters is rejected with ValidationErrors and not stored; no
\* stored principal holds the hash of such a password.
C29_PrincipalInputValidated ==
    /\ \A u \in DOMAIN principals :
          principals[u].Password \notin {GenerateFromPassword(pw) : pw \in ShortPasswords}
    /\ Idle => \A pr \in PrincipalInputs :
          \A bad \in {[pr EXCEPT !.Password = pw] : pw \in ShortPasswords}
                         \cup {[pr EXCEPT !.Username = u] : u \in ShortUsernames} :
              \A o \in CreatePrincipal(DB, Root, bad, "none") :
                  o.err = ValidationErrors /\ o.db = DB

\* C30: CreateToken never stores a corrupt token.  Every stored token value
\* splits on "/" into exactly four parts; the value written by a successful
\* CreateToken(name, id, fld, fmt) splits into exactly name, id, fld and
\* fmt, also for a name that itself holds "/"; and GetTokenValue of the
\* token never returns the corruption error.
C30_TokenNeverCorrupt ==
    /\ \A t \in DOMAIN tokens : Len(Split(tokens[t], "/")) = 4
    /\ Idle => \A a \in Actors, name \in ColNames, id \in RecIds, fld \in FieldNames,
                  fmt \in {Plain, Masked} :
          \A o \in CreateToken(DB, a, name, id, fld, fmt, "none") :
              o.err = NoErr =>
                  /\ Split(o.db.tokens[o.val], "/") = <<name, id, fld, fmt>>
                  /\ \A b \in Actors : \A r \in GetTokenValue(o.db, b, o.val, "none") :
                         r.err # CorruptToken

====
